---- MODULE Spec2Model ----
(***************************************************************************)
(* Model of baseball_analysys.py: the three eligibility-gated metric       *)
(* formulas, the year filter, the per-player aggregator, the ranker, the   *)
(* name resolver and the two orchestrators that compose them.              *)
(*                                                                         *)
(* Rows are dicts living on a heap (address -> dict), lists are sequences  *)
(* of addresses, so that aliasing and in-place modification are visible.   *)
(* A raw cell is a pair <<kind, n>>:                                       *)
(*   "txt"  the decimal text of the integer n, as csv.DictReader yields it *)
(*   "pad"  numeric text that is not canonical (" 2001", "02001")          *)
(*   "dec"  the text of n with a fractional part ("600.0")                 *)
(*   "bad"  text that is no number ("", "n/a")                             *)
(*   "int"  a Python int (what aggregate_by_player_id stores)              *)
(* A score is an exact fraction <<num, den>> in lowest terms, den > 0.     *)
(***************************************************************************)
EXTENDS Integers, Sequences, FiniteSets, TLC

VARIABLES heap, stats, master, op, arg, top_ids, ret, exc

vars == <<heap, stats, master, op, arg, top_ids, ret, exc>>

\* ------------------------------------------------------------------ bounds
MaxRows == 3

\* ------------------------------------------------------- program constants
MINIMUM_AB == 500

\* The Field Map: logical role -> column name of the tables.
info ==
  [ playerid |-> "playerID", yearid |-> "yearID",
    hits |-> "H", atbats |-> "AB", walks |-> "BB",
    doubles |-> "2B", triples |-> "3B", homeruns |-> "HR",
    firstname |-> "nameFirst", lastname |-> "nameLast",
    battingfields |-> <<"AB", "H", "BB", "2B", "3B", "HR">> ]

\* --------------------------------------------------------------- raw cells
Txt(n) == <<"txt", n>>
Pad(n) == <<"pad", n>>
Dec(n) == <<"dec", n>>
Bad == <<"bad", 0>>
IntV(n) == <<"int", n>>

\* float(x): every numeric text and every int converts; other text raises.
FloatOk(x) == x[1] # "bad"
FloatOf(x) == x[2]

\* int(x): text with a fractional part raises too.
IntOk(x) == x[1] \in {"txt", "pad", "int"}
IntOf(x) == x[2]

\* ------------------------------------------------------------------ scores
Abs(n) == IF n < 0 THEN 0 - n ELSE n

RECURSIVE Gcd(_, _)
Gcd(a, b) == IF b = 0 THEN a ELSE Gcd(b, a % b)

\* The quotient n / d of two floats holding integers, d # 0.
Quot(n, d) ==
  LET g == Gcd(Abs(n), Abs(d))
      s == IF d < 0 THEN 0 - 1 ELSE 1
  IN  <<(s * n) \div g, (s * d) \div g>>

Zero == <<0, 1>>

ScoreLess(a, b) == a[1] * b[2] < b[1] * a[2]
ScoreGeq(a, b) == ~ScoreLess(a, b)

\* Outcome of a call: the exception raised ("none" when it returns) and the
\* value returned (<<>> when it raises).
Return(v) == [exc |-> "none", val |-> v]
Raise(e) == [exc |-> e, val |-> <<>>]

\* ---------------------------------------------------------- metric formulas
batting_average_nogate(inf, batting_stats) ==
  IF ~FloatOk(batting_stats[inf.hits]) THEN Raise("ValueError")
  ELSE IF ~FloatOk(batting_stats[inf.atbats]) THEN Raise("ValueError")
  ELSE LET hits == FloatOf(batting_stats[inf.hits])
           at_bats == FloatOf(batting_stats[inf.atbats])
       IN  IF at_bats = 0 THEN Raise("ZeroDivisionError")
           ELSE Return(Quot(hits, at_bats))

batting_average(inf, batting_stats) ==
  IF ~FloatOk(batting_stats[inf.hits]) THEN Raise("ValueError")
  ELSE IF ~FloatOk(batting_stats[inf.atbats]) THEN Raise("ValueError")
  ELSE LET hits == FloatOf(batting_stats[inf.hits])
           at_bats == FloatOf(batting_stats[inf.atbats])
       IN  IF at_bats >= MINIMUM_AB THEN Return(Quot(hits, at_bats))
           ELSE Return(Zero)

onbase_percentage(inf, batting_stats) ==
  IF ~FloatOk(batting_stats[inf.hits]) THEN Raise("ValueError")
  ELSE IF ~FloatOk(batting_stats[inf.atbats]) THEN Raise("ValueError")
  ELSE IF ~FloatOk(batting_stats[inf.walks]) THEN Raise("ValueError")
  ELSE LET hits == FloatOf(batting_stats[inf.hits])
           at_bats == FloatOf(batting_stats[inf.atbats])
           walks == FloatOf(batting_stats[inf.walks])
       IN  IF at_bats >= MINIMUM_AB
           THEN IF at_bats + walks = 0 THEN Raise("ZeroDivisionError")
                ELSE Return(Quot(hits + walks, at_bats + walks))
           ELSE Return(Zero)

slugging_percentage_singles(inf, batting_stats) ==
  IF ~FloatOk(batting_stats[inf.hits]) THEN Raise("ValueError")
  ELSE IF ~FloatOk(batting_stats[inf.doubles]) THEN Raise("ValueError")
  ELSE IF ~FloatOk(batting_stats[inf.triples]) THEN Raise("ValueError")
  ELSE IF ~FloatOk(batting_stats[inf.homeruns]) THEN Raise("ValueError")
  ELSE IF ~FloatOk(batting_stats[inf.atbats]) THEN Raise("ValueError")
  ELSE LET hits == FloatOf(batting_stats[inf.hits])
           doubles == FloatOf(batting_stats[inf.doubles])
           triples == FloatOf(batting_stats[inf.triples])
           home_runs == FloatOf(batting_stats[inf.homeruns])
           singles == hits - doubles - triples - home_runs
           at_bats == FloatOf(batting_stats[inf.atbats])
       IN  IF at_bats >= MINIMUM_AB
           THEN Return(Quot(singles, at_bats))
           ELSE Return(Zero)

slugging_percentage(inf, batting_stats) ==
  IF ~FloatOk(batting_stats[inf.hits]) THEN Raise("ValueError")
  ELSE IF ~FloatOk(batting_stats[inf.doubles]) THEN Raise("ValueError")
  ELSE IF ~FloatOk(batting_stats[inf.triples]) THEN Raise("ValueError")
  ELSE IF ~FloatOk(batting_stats[inf.homeruns]) THEN Raise("ValueError")
  ELSE IF ~FloatOk(batting_stats[inf.atbats]) THEN Raise("ValueError")
  ELSE LET hits == FloatOf(batting_stats[inf.hits])
           doubles == FloatOf(batting_stats[inf.doubles])
           triples == FloatOf(batting_stats[inf.triples])
           home_runs == FloatOf(batting_stats[inf.homeruns])
           singles == hits - doubles - triples - home_runs
           at_bats == FloatOf(batting_stats[inf.atbats])
       IN  IF at_bats >= MINIMUM_AB
           THEN Return(Quot(singles + 2 * doubles + 3 * triples + 4 * home_runs,
                            at_bats))
           ELSE Return(Zero)

Formulas == {"batting_average", "onbase_percentage", "slugging_percentage"}

\* formula(info, stat) with the formula passed by name.
Apply(formula, inf, stat) ==
  CASE formula = "batting_average" -> batting_average(inf, stat)
    [] formula = "onbase_percentage" -> onbase_percentage(inf, stat)
    [] formula = "slugging_percentage" -> slugging_percentage(inf, stat)

\* Outcome of a pipeline stage: the exception, the value returned, and the heap
\* and the input list as the stage leaves them.
Done(v, h, l) == [exc |-> "none", val |-> v, heap |-> h, list |-> l]
Fail(e, h, l) == [exc |-> e, val |-> <<>>, heap |-> h, list |-> l]

Range(s) == {s[k] : k \in 1..Len(s)}

\* -------------------------------------------------------------- year filter
RECURSIVE filter_loop_first(_, _, _, _, _, _)
filter_loop_first(h, statistics, year, yearid, i, res) ==
  IF i > Len(statistics) THEN Done(res, h, statistics)
  ELSE LET stat == h[statistics[i]]
       IN  IF ~IntOk(stat[yearid]) THEN Fail("ValueError", h, statistics)
           ELSE IF IntOf(stat[yearid]) = year
                THEN Done(Append(res, statistics[i]), h, statistics)
                ELSE filter_loop_first(h, statistics, year, yearid, i + 1, res)

RECURSIVE filter_loop(_, _, _, _, _, _)
filter_loop(h, statistics, year, yearid, i, res) ==
  IF i > Len(statistics) THEN Done(res, h, statistics)
  ELSE LET stat == h[statistics[i]]
       IN  IF ~IntOk(stat[yearid]) THEN Fail("ValueError", h, statistics)
           ELSE IF IntOf(stat[yearid]) = year
                THEN filter_loop(h, statistics, year, yearid, i + 1,
                                 Append(res, statistics[i]))
                ELSE filter_loop(h, statistics, year, yearid, i + 1, res)

filter_by_year(h, statistics, year, yearid) ==
  filter_loop(h, statistics, year, yearid, 1, <<>>)

\* ------------------------------------------------------------------ ranker
\* scored.sort(key=lambda x: x[1], reverse=True), the sort being stable: an
\* entry ends up behind every entry whose key is >= its own and that came
\* before it.  Insertion of the entries in input order gives that order.
InsertAt(s, k, e) == SubSeq(s, 1, k - 1) \o <<e>> \o SubSeq(s, k, Len(s))

sort_insert_unstable(sorted, e) ==
  LET ahead == {k \in 1..Len(sorted) : ScoreLess(e[2], sorted[k][2])}
  IN  InsertAt(sorted, Cardinality(ahead) + 1, e)

sort_insert(sorted, e) ==
  LET ahead == {k \in 1..Len(sorted) : ScoreGeq(sorted[k][2], e[2])}
  IN  InsertAt(sorted, Cardinality(ahead) + 1, e)

RECURSIVE sort_desc(_, _, _)
sort_desc(scored, i, sorted) ==
  IF i > Len(scored) THEN sorted
  ELSE sort_desc(scored, i + 1, sort_insert(sorted, scored[i]))

\* scored[:numplayers]
slice_all(scored, numplayers) == scored

slice(scored, numplayers) ==
  IF numplayers >= 0
  THEN SubSeq(scored, 1, IF numplayers < Len(scored) THEN numplayers ELSE Len(scored))
  ELSE SubSeq(scored, 1, IF Len(scored) + numplayers > 0
                         THEN Len(scored) + numplayers ELSE 0)

RECURSIVE score_loop(_, _, _, _, _, _)
score_loop(inf, h, statistics, formula, i, scored) ==
  IF i > Len(statistics) THEN Return(scored)
  ELSE LET stat == h[statistics[i]]
           score == Apply(formula, inf, stat)
       IN  IF score.exc # "none" THEN Raise(score.exc)
           ELSE score_loop(inf, h, statistics, formula, i + 1,
                           Append(scored, <<stat[inf.playerid], score.val>>))

top_player_ids(inf, h, statistics, formula, numplayers) ==
  LET scored == score_loop(inf, h, statistics, formula, 1, <<>>)
  IN  IF scored.exc # "none" THEN Fail(scored.exc, h, statistics)
      ELSE Done(slice(sort_desc(scored.val, 1, <<>>), numplayers), h, statistics)

\* ----------------------------------------------------------- name resolver
\* f"{stat:.3f}": the sign and the thousandths of |stat|, rounded half to even.
\* Python rounds the double nearest to the quotient, which for a quotient
\* exactly halfway between two thousandths may lie on either side of it; the
\* tables drawn from Pool (up to 3 rows) produce no such quotient.
Format3(score) ==
  LET n == Abs(score[1])
      d == score[2]
      q == (1000 * n) \div d
      r == (1000 * n) % d
      up == (2 * r > d) \/ (2 * r = d /\ q % 2 = 1)
  IN  <<IF score[1] < 0 THEN "-" ELSE "", IF up THEN q + 1 ELSE q>>

\* f"{stat:.3f} --- {name_first} {name_last}"
Text(score, name_first, name_last) == Format3(score) \o <<name_first, name_last>>

RECURSIVE lookup_loop_skip(_, _, _, _, _)
lookup_loop_skip(inf, m, top, i, result) ==
  IF i > Len(top) THEN Return(result)
  ELSE LET pid == top[i][1]
           stat == top[i][2]
       IN  IF pid \notin DOMAIN m
           THEN lookup_loop_skip(inf, m, top, i + 1, result)
           ELSE lookup_loop_skip(inf, m, top, i + 1,
                  Append(result,
                         Text(stat, m[pid][inf.firstname], m[pid][inf.lastname])))

RECURSIVE lookup_loop(_, _, _, _, _)
lookup_loop(inf, m, top, i, result) ==
  IF i > Len(top) THEN Return(result)
  ELSE LET pid == top[i][1]
           stat == top[i][2]
       IN  IF pid \notin DOMAIN m THEN Raise("KeyError")
           ELSE lookup_loop(inf, m, top, i + 1,
                  Append(result,
                         Text(stat, m[pid][inf.firstname], m[pid][inf.lastname])))

\* m is the table read_csv_as_nested_dict returns for the master file.
lookup_player_names(inf, m, top_ids_and_stats) ==
  lookup_loop(inf, m, top_ids_and_stats, 1, <<>>)

\* -------------------------------------------------------------- aggregator
\* res is a dict in insertion order: a sequence of <<pid, address of record>>.
HasKey(res, pid) == \E k \in 1..Len(res) : res[k][1] = pid
Get(res, pid) == res[CHOOSE k \in 1..Len(res) : res[k][1] = pid][2]
Values(res) == [k \in 1..Len(res) |-> res[k][2]]

\* A new key goes to the end of the dict (insertion order).
dict_insert_front(res, pid, ref) == <<<<pid, ref>>>> \o res

dict_insert(res, pid, ref) == Append(res, <<pid, ref>>)

\* res[pid] = stat, its summed fields then set to 0 in place.
new_record_alias(h, ref, playerid, pid, fields) ==
  [heap |-> [h EXCEPT ![ref] =
               [c \in DOMAIN h[ref] |->
                  IF c \in Range(fields) THEN IntV(0) ELSE h[ref][c]]],
   ref |-> ref]

\* res[pid] = {playerid: pid}; res[pid][field] = 0 for each field.
new_record(h, ref, playerid, pid, fields) ==
  [heap |-> Append(h, [c \in {playerid} \cup Range(fields) |->
                         IF c = playerid THEN pid ELSE IntV(0)]),
   ref |-> Len(h) + 1]

\* for field in fields: res[pid][field] += int(stat[field])
RECURSIVE add_fields(_, _, _, _, _)
add_fields(h, rec, ref, fields, j) ==
  IF j > Len(fields) THEN [exc |-> "none", heap |-> h]
  ELSE LET field == fields[j]
       IN  IF ~IntOk(h[ref][field]) THEN [exc |-> "ValueError", heap |-> h]
           ELSE add_fields(
                  [h EXCEPT ![rec][field] =
                     IntV(IntOf(h[rec][field]) + IntOf(h[ref][field]))],
                  rec, ref, fields, j + 1)

RECURSIVE aggregate_loop_last(_, _, _, _, _, _)
aggregate_loop_last(h, statistics, playerid, fields, i, res) ==
  IF i > Len(statistics) THEN Done(res, h, statistics)
  ELSE LET ref == statistics[i]
           pid == h[ref][playerid]
           new == new_record(h, ref, playerid, pid, fields)
           res1 == IF HasKey(res, pid)
                   THEN [k \in 1..Len(res) |->
                           IF res[k][1] = pid THEN <<pid, new.ref>> ELSE res[k]]
                   ELSE dict_insert(res, pid, new.ref)
           added == add_fields(new.heap, new.ref, ref, fields, 1)
       IN  IF added.exc # "none" THEN Fail(added.exc, added.heap, statistics)
           ELSE aggregate_loop_last(added.heap, statistics, playerid, fields,
                                    i + 1, res1)

RECURSIVE aggregate_loop(_, _, _, _, _, _)
aggregate_loop(h, statistics, playerid, fields, i, res) ==
  IF i > Len(statistics) THEN Done(res, h, statistics)
  ELSE LET ref == statistics[i]
           pid == h[ref][playerid]
           new == IF HasKey(res, pid) THEN [heap |-> h, ref |-> Get(res, pid)]
                  ELSE new_record(h, ref, playerid, pid, fields)
           res1 == IF HasKey(res, pid) THEN res
                   ELSE dict_insert(res, pid, new.ref)
           added == add_fields(new.heap, new.ref, ref, fields, 1)
       IN  IF added.exc # "none" THEN Fail(added.exc, added.heap, statistics)
           ELSE aggregate_loop(added.heap, statistics, playerid, fields,
                               i + 1, res1)

aggregate_by_player_id(h, statistics, playerid, fields) ==
  aggregate_loop(h, statistics, playerid, fields, 1, <<>>)

\* ------------------------------------------------------------ orchestrators
\* Outcome of an orchestrator: as a stage's, with the ranked list it handed to
\* the name resolver (<<>> when it never got that far).
Orch(names, top, h, l) ==
  [exc |-> names.exc, val |-> names.val, heap |-> h, list |-> l, top |-> top]
Abort(e, h, l) == [exc |-> e, val |-> <<>>, heap |-> h, list |-> l, top |-> <<>>]

\* battingRows is the list read_csv_as_list_dict returns for the batting file.
compute_top_stats_year(inf, h, battingRows, m, formula, numplayers, year) ==
  LET yearly == filter_by_year(h, battingRows, year, inf.yearid)
  IN  IF yearly.exc # "none" THEN Abort(yearly.exc, yearly.heap, yearly.list)
      ELSE LET top == top_player_ids(inf, yearly.heap, yearly.val, formula,
                                     numplayers)
           IN  IF top.exc # "none" THEN Abort(top.exc, top.heap, yearly.list)
               ELSE Orch(lookup_player_names(inf, m, top.val), top.val,
                         top.heap, yearly.list)

compute_top_stats_career_rows(inf, h, battingRows, m, formula, numplayers) ==
  LET top == top_player_ids(inf, h, battingRows, formula, numplayers)
  IN  IF top.exc # "none" THEN Abort(top.exc, top.heap, top.list)
      ELSE Orch(lookup_player_names(inf, m, top.val), top.val, top.heap, top.list)

compute_top_stats_career(inf, h, battingRows, m, formula, numplayers) ==
  LET agg == aggregate_by_player_id(h, battingRows, inf.playerid,
                                    inf.battingfields)
  IN  IF agg.exc # "none" THEN Abort(agg.exc, agg.heap, agg.list)
      ELSE LET agg_list == Values(agg.val)
               top == top_player_ids(inf, agg.heap, agg_list, formula, numplayers)
           IN  IF top.exc # "none" THEN Abort(top.exc, top.heap, agg.list)
               ELSE Orch(lookup_player_names(inf, m, top.val), top.val,
                         top.heap, agg.list)

\* ------------------------------------------------------------------ inputs
Row(pid, year, ab, h, bb, d, t, hr) ==
  [c \in {"playerID", "yearID", "AB", "H", "BB", "2B", "3B", "HR"} |->
     CASE c = "playerID" -> pid
       [] c = "yearID" -> year
       [] c = "AB" -> ab
       [] c = "H" -> h
       [] c = "BB" -> bb
       [] c = "2B" -> d
       [] c = "3B" -> t
       [] c = "HR" -> hr]

\* Batting rows the tables are drawn from: seasons below the threshold that
\* add up to a career above it, equal scores, a negative singles count,
\* negative hits, and cells that float() or int() reject.
Pool ==
  { Row("p1", Txt(2001), Txt(300), Txt(100), Txt(0), Txt(0), Txt(0), Txt(0)),
    Row("p1", Txt(2002), Txt(250), Txt(50), Txt(50), Txt(0), Txt(0), Txt(0)),
    Row("p2", Txt(2001), Txt(600), Txt(200), Txt(0), Txt(0), Txt(0), Txt(0)),
    Row("p3", Pad(2001), Txt(600), Txt(200), Txt(100), Txt(250), Txt(0), Txt(0)),
    Row("p2", Txt(2002), Txt(400), Txt(300), Txt(0), Txt(0), Txt(0), Txt(0)),
    Row("p3", Txt(2001), Txt(500), Bad, Txt(0), Txt(0), Txt(0), Txt(0)),
    Row("p1", Bad, Dec(600), Txt(150), Txt(0), Txt(30), Txt(0), Txt(0)),
    Row("p2", Txt(2001), Txt(500), Txt(0 - 1), Txt(0), Txt(0), Txt(0), Txt(0)),
    Row("p1", Txt(2002), Txt(100), Txt(40), Txt(10), Txt(0), Txt(0), Txt(0)) }

Years == {2001, 2002}

\* The master table: "p3" has no row in it.
MasterTable ==
  [pid \in {"p1", "p2"} |->
     [c \in {"playerID", "nameFirst", "nameLast"} |->
        CASE c = "playerID" -> pid
          [] c = "nameFirst" -> IF pid = "p1" THEN "Hank" ELSE "Babe"
          [] c = "nameLast" -> IF pid = "p1" THEN "Aaron" ELSE "Ruth"]]

NoArg == [ref |-> 0, formula |-> "none", numplayers |-> 0, year |-> 0]

\* The rows the loader put on the heap: what a call starts from, the records
\* of an earlier call's result being garbage by then.
Rows == SubSeq(heap, 1, Len(stats))

Init ==
  /\ \E n \in 0..MaxRows :
       /\ heap \in [1..n -> Pool]
       /\ stats = [k \in 1..n |-> k]
  /\ master = MasterTable
  /\ op = "init"
  /\ arg = NoArg
  /\ top_ids = <<>>
  /\ ret = <<>>
  /\ exc = "none"

\* ----------------------------------------------------------------- actions
\* A behaviour is one call on freshly loaded tables (the orchestrators read the
\* files anew on every call), then possibly the name resolution of a ranked
\* list the ranker returned.
Idle == op = "init"

FormulaCall(formula) ==
  \E i \in 1..Len(stats) :
    Idle /\
    LET r == Apply(formula, info, Rows[stats[i]])
    IN  /\ op' = formula
        /\ arg' = [NoArg EXCEPT !.ref = stats[i]]
        /\ ret' = r.val
        /\ exc' = r.exc
        /\ heap' = Rows
        /\ top_ids' = <<>>
        /\ UNCHANGED <<stats, master>>

BattingAverage == FormulaCall("batting_average")
OnbasePercentage == FormulaCall("onbase_percentage")
SluggingPercentage == FormulaCall("slugging_percentage")

FilterByYear ==
  \E year \in Years :
    Idle /\
    LET r == filter_by_year(Rows, stats, year, info.yearid)
    IN  /\ op' = "filter_by_year"
        /\ arg' = [NoArg EXCEPT !.year = year]
        /\ ret' = r.val
        /\ exc' = r.exc
        /\ heap' = r.heap
        /\ stats' = r.list
        /\ top_ids' = <<>>
        /\ UNCHANGED master

TopPlayerIds ==
  \E formula \in Formulas, numplayers \in 0..(MaxRows + 1) :
    Idle /\
    LET r == top_player_ids(info, Rows, stats, formula, numplayers)
    IN  /\ op' = "top_player_ids"
        /\ arg' = [NoArg EXCEPT !.formula = formula, !.numplayers = numplayers]
        /\ ret' = r.val
        /\ exc' = r.exc
        /\ heap' = r.heap
        /\ stats' = r.list
        /\ top_ids' = <<>>
        /\ UNCHANGED master

\* lookup_player_names on the ranked list the ranker has just returned.
LookupPlayerNames ==
  /\ op = "top_player_ids"
  /\ exc = "none"
  /\ LET r == lookup_player_names(info, master, ret)
     IN  /\ op' = "lookup_player_names"
         /\ arg' = NoArg
         /\ top_ids' = ret
         /\ ret' = r.val
         /\ exc' = r.exc
         /\ heap' = Rows
         /\ UNCHANGED <<stats, master>>

\* The records stay on the heap behind the rows: ret holds their addresses.
AggregateByPlayerId ==
  Idle /\
  LET r == aggregate_by_player_id(Rows, stats, info.playerid, info.battingfields)
  IN  /\ op' = "aggregate_by_player_id"
      /\ arg' = NoArg
      /\ ret' = r.val
      /\ exc' = r.exc
      /\ heap' = IF r.exc = "none" THEN r.heap ELSE SubSeq(r.heap, 1, Len(r.list))
      /\ stats' = r.list
      /\ top_ids' = <<>>
      /\ UNCHANGED master

ComputeTopStatsYear ==
  \E formula \in Formulas, numplayers \in 0..(MaxRows + 1), year \in Years :
    Idle /\
    LET r == compute_top_stats_year(info, Rows, stats, master, formula,
                                    numplayers, year)
    IN  /\ op' = "compute_top_stats_year"
        /\ arg' = [NoArg EXCEPT !.formula = formula, !.numplayers = numplayers,
                                !.year = year]
        /\ ret' = r.val
        /\ exc' = r.exc
        /\ top_ids' = r.top
        /\ heap' = SubSeq(r.heap, 1, Len(r.list))
        /\ stats' = r.list
        /\ UNCHANGED master

ComputeTopStatsCareer ==
  \E formula \in Formulas, numplayers \in 0..(MaxRows + 1) :
    Idle /\
    LET r == compute_top_stats_career(info, Rows, stats, master, formula,
                                      numplayers)
    IN  /\ op' = "compute_top_stats_career"
        /\ arg' = [NoArg EXCEPT !.formula = formula, !.numplayers = numplayers]
        /\ ret' = r.val
        /\ exc' = r.exc
        /\ top_ids' = r.top
        /\ heap' = SubSeq(r.heap, 1, Len(r.list))
        /\ stats' = r.list
        /\ UNCHANGED master

Next ==
  \/ BattingAverage
  \/ OnbasePercentage
  \/ SluggingPercentage
  \/ FilterByYear
  \/ TopPlayerIds
  \/ LookupPlayerNames
  \/ AggregateByPlayerId
  \/ ComputeTopStatsYear
  \/ ComputeTopStatsCareer

Spec == Init /\ [][Next]_vars

\* The formulas alone, on one row drawn from every combination of cells that
\* matters to them: at-bats around the threshold, negative counts, a negative
\* singles count, a denominator of zero, cells that are not numbers.
RowSpace ==
  { Row("p1", Txt(2001), ab, h, bb, d, t, hr) :
      ab \in {Txt(0 - 500), Txt(0), Txt(499), Dec(499), Txt(500), Pad(600), Bad},
      h \in {Txt(0 - 1), Txt(0), Txt(150), Bad},
      bb \in {Txt(0 - 500), Txt(0), Txt(100), Bad},
      d \in {Txt(0), Txt(200), Bad},
      t \in {Txt(0), Txt(1)},
      hr \in {Txt(0 - 1), Txt(0), Bad} }

InitFormula ==
  /\ heap \in [1..1 -> RowSpace]
  /\ stats = <<1>>
  /\ master = MasterTable
  /\ op = "init"
  /\ arg = NoArg
  /\ top_ids = <<>>
  /\ ret = <<>>
  /\ exc = "none"

NextFormula ==
  \/ BattingAverage
  \/ OnbasePercentage
  \/ SluggingPercentage

SpecFormula == InitFormula /\ [][NextFormula]_vars

\* ============================================================== properties
\* The row a formula call was made on, and the roles the formula reads.
CalledRow == heap[arg.ref]

ReadBy(formula) ==
  CASE formula = "batting_average" -> {"hits", "atbats"}
    [] formula = "onbase_percentage" -> {"hits", "atbats", "walks"}
    [] formula = "slugging_percentage" ->
         {"hits", "doubles", "triples", "homeruns", "atbats"}

Cell(role) == CalledRow[info[role]]
AllNumeric == \A role \in ReadBy(op) : FloatOk(Cell(role))
BelowThreshold == FloatOk(Cell("atbats")) /\ FloatOf(Cell("atbats")) < MINIMUM_AB

\* C1 as stated: a row whose at-bats are below MINIMUM_AB makes every formula
\* return exactly 0, whatever the row's other cells hold.
C1_ZeroWhateverOtherFields ==
  (op \in Formulas /\ BelowThreshold) => (exc = "none" /\ ret = Zero)

\* C1 amended: a row whose at-bats are below MINIMUM_AB makes a formula return
\* exactly 0 when every cell the formula reads is numeric; when one of them is
\* not, the formula raises ValueError, the cells being parsed before the
\* threshold is tested.
C1_ZeroBelowThreshold ==
  (op \in Formulas /\ BelowThreshold) =>
     /\ AllNumeric => (exc = "none" /\ ret = Zero)
     /\ ~AllNumeric => (exc = "ValueError" /\ ret = <<>>)

C1_Witness ==
  /\ op = "slugging_percentage"
  /\ BelowThreshold
  /\ AllNumeric
  /\ FloatOf(Cell("atbats")) = 499
  /\ FloatOf(Cell("hits")) = 150
  /\ FloatOf(Cell("doubles")) = 200
  /\ ret = Zero

\* C7 as stated: on a row whose required cells are numeric every formula
\* returns a score >= 0.
C7_NonNegativeOnNumbers ==
  (op \in Formulas /\ AllNumeric) => (exc = "none" /\ ret[1] >= 0)

\* C7 amended: on a row whose required cells are numbers >= 0 every formula
\* returns a score >= 0, slugging percentage included when the singles count
\* hits - doubles - triples - home_runs is negative.
C7_NonNegativeScore ==
  (op \in Formulas /\ AllNumeric
     /\ \A role \in ReadBy(op) : FloatOf(Cell(role)) >= 0)
  => (exc = "none" /\ ret[1] >= 0)

C7_Witness ==
  /\ op = "slugging_percentage"
  /\ AllNumeric
  /\ \A role \in ReadBy(op) : FloatOf(Cell(role)) >= 0
  /\ FloatOf(Cell("atbats")) >= MINIMUM_AB
  /\ FloatOf(Cell("hits")) - FloatOf(Cell("doubles"))
       - FloatOf(Cell("triples")) - FloatOf(Cell("homeruns")) < 0
  /\ exc = "none"
  /\ ret[1] > 0

\* ------------------------------------------------------------ ranker claims
Min(a, b) == IF a < b THEN a ELSE b

\* s is t with some entries left out, the rest in t's order.
RECURSIVE IsSubseq(_, _)
IsSubseq(s, t) ==
  IF s = <<>> THEN TRUE
  ELSE IF t = <<>> THEN FALSE
  ELSE IF Head(s) = Head(t) THEN IsSubseq(Tail(s), Tail(t))
  ELSE IsSubseq(s, Tail(t))

NonIncreasing(ranked) ==
  \A i, j \in 1..Len(ranked) : i < j => ScoreGeq(ranked[i][2], ranked[j][2])

\* The entries of a list of (id, score) pairs whose score is sc.
WithScore(entries, sc) ==
  LET Same(e) == e[2] = sc IN SelectSeq(entries, Same)

\* What the ranker has to score: every row of its input, in input order.
Entries(formula) ==
  [k \in 1..Len(stats) |->
     <<heap[stats[k]][info.playerid], Apply(formula, info, heap[stats[k]]).val>>]

Count(seq, e) == Cardinality({k \in 1..Len(seq) : seq[k] = e})

Ranked == op = "top_player_ids" /\ exc = "none"

\* C2: the list top_player_ids returns is sorted non-increasing by score, and
\* entries of equal score are in the relative order of their rows in the input.
C2_StableDescending ==
  Ranked =>
    /\ NonIncreasing(ret)
    /\ \A k \in 1..Len(ret) :
         IsSubseq(WithScore(ret, ret[k][2]),
                  WithScore(Entries(arg.formula), ret[k][2]))

C2_Witness ==
  /\ Ranked
  /\ Len(ret) = 3
  /\ ret[1][2] = ret[2][2]
  /\ ret[1][1] # ret[2][1]
  /\ ScoreLess(ret[3][2], ret[2][2])
  /\ heap[stats[1]][info.playerid] = ret[3][1]
  /\ heap[stats[2]][info.playerid] = ret[1][1]

\* C3: top_player_ids scores every input row once, ineligible rows as entries
\* of score 0, and returns min(N, number of rows) of the entries: all of them
\* when N is not below the number of rows, none when N = 0.
C3_LengthAndCoverage ==
  Ranked =>
    /\ Len(ret) = Min(arg.numplayers, Len(stats))
    /\ \A k \in 1..Len(ret) :
         Count(ret, ret[k]) <= Count(Entries(arg.formula), ret[k])
    /\ arg.numplayers >= Len(stats) =>
         \A k \in 1..Len(stats) :
           Count(ret, Entries(arg.formula)[k])
             = Count(Entries(arg.formula), Entries(arg.formula)[k])
    /\ arg.numplayers = 0 => ret = <<>>

C3_Witness ==
  /\ Ranked
  /\ Len(stats) = 3
  /\ arg.numplayers = 4
  /\ Len(ret) = 3
  /\ \E k \in 1..3 :
       /\ FloatOf(heap[stats[k]][info.atbats]) < MINIMUM_AB
       /\ Count(ret, <<heap[stats[k]][info.playerid], Zero>>) = 1

\* ------------------------------------------------------------ filter claims
YearsNumeric == \A k \in 1..Len(stats) : IntOk(heap[stats[k]][info.yearid])

\* C6: on rows whose year cells are numeric filter_by_year returns the rows
\* whose year equals the target, each once and in their input order.
C6_FilterSubsequence ==
  (op = "filter_by_year" /\ YearsNumeric) =>
    /\ exc = "none"
    /\ LET Matches(ref) == IntOf(heap[ref][info.yearid]) = arg.year
       IN  ret = SelectSeq(stats, Matches)

C6_Witness ==
  /\ op = "filter_by_year"
  /\ YearsNumeric
  /\ Len(stats) = 3
  /\ ret = <<1, 3>>
  /\ heap[1][info.yearid] # heap[3][info.yearid]

\* -------------------------------------------------------- aggregator claims
FieldsInteger ==
  \A k \in 1..Len(stats) :
    \A field \in Range(info.battingfields) : IntOk(heap[stats[k]][field])

PlayerIds == {heap[stats[k]][info.playerid] : k \in 1..Len(stats)}

\* The sum of a field over the rows 1..k of the table that carry pid.
RECURSIVE SumUpTo(_, _, _)
SumUpTo(pid, field, k) ==
  IF k = 0 THEN 0
  ELSE SumUpTo(pid, field, k - 1)
         + (IF heap[stats[k]][info.playerid] = pid
            THEN IntOf(heap[stats[k]][field]) ELSE 0)

Total(pid, field) == SumUpTo(pid, field, Len(stats))

\* C4: on rows whose summed cells are integers aggregate_by_player_id yields
\* one record per distinct player id, each summed field of it being the sum
\* of that field over exactly the rows of that player.
C4_SumPerPlayer ==
  (op = "aggregate_by_player_id" /\ FieldsInteger) =>
    /\ exc = "none"
    /\ Len(ret) = Cardinality(PlayerIds)
    /\ {ret[k][1] : k \in 1..Len(ret)} = PlayerIds
    /\ \A k \in 1..Len(ret) :
         /\ heap[ret[k][2]][info.playerid] = ret[k][1]
         /\ \A field \in Range(info.battingfields) :
              heap[ret[k][2]][field] = IntV(Total(ret[k][1], field))

C4_Witness ==
  /\ op = "aggregate_by_player_id"
  /\ FieldsInteger
  /\ Len(stats) = 3
  /\ Len(ret) = 2
  /\ heap[1][info.playerid] = heap[3][info.playerid]
  /\ heap[1][info.playerid] # heap[2][info.playerid]
  /\ heap[ret[1][2]][info.hits] = IntV(150)

\* The first row of the table that carries pid.
FirstRow(pid) ==
  CHOOSE k \in 1..Len(stats) :
    /\ heap[stats[k]][info.playerid] = pid
    /\ \A j \in 1..(k - 1) : heap[stats[j]][info.playerid] # pid

\* C5: compute_top_stats_career tests the threshold on a player's at-bats
\* summed over all of the player's rows: the batting average it ranks is
\* total hits / total at-bats when the total at-bats reach MINIMUM_AB, rows
\* below the threshold included, and 0 otherwise.
C5_CareerThresholdOnTotals ==
  (op = "compute_top_stats_career" /\ arg.formula = "batting_average") =>
    \A k \in 1..Len(top_ids) :
      LET pid == top_ids[k][1]
          at_bats == Total(pid, info.atbats)
      IN  /\ pid \in PlayerIds
          /\ top_ids[k][2] = IF at_bats >= MINIMUM_AB
                             THEN Quot(Total(pid, info.hits), at_bats)
                             ELSE Zero

C5_Witness ==
  /\ op = "compute_top_stats_career"
  /\ arg.formula = "batting_average"
  /\ exc = "none"
  /\ \E k \in 1..Len(top_ids) :
       /\ \A j \in 1..Len(stats) :
            heap[stats[j]][info.playerid] = top_ids[k][1] =>
              FloatOf(heap[stats[j]][info.atbats]) < MINIMUM_AB
       /\ Total(top_ids[k][1], info.atbats) = 550
       /\ top_ids[k][2] = <<3, 11>>
       /\ ret[k] = <<"", 273, "Hank", "Aaron">>

\* ---------------------------------------------------------- orchestrator claims
Orchestrated == op \in {"compute_top_stats_year", "compute_top_stats_career"}

Resolved(k) ==
  Text(top_ids[k][2], master[top_ids[k][1]][info.firstname],
       master[top_ids[k][1]][info.lastname])

\* C8: an orchestrator call returns one formatted string for every entry of
\* the ranked list, or raises and returns nothing; it raises KeyError when an
\* id of the ranked list is missing from the name table, entries resolved
\* before it notwithstanding.
C8_NoPartialResult ==
  Orchestrated =>
    /\ \/ /\ exc = "none"
          /\ Len(ret) = Len(top_ids)
          /\ \A k \in 1..Len(top_ids) :
               top_ids[k][1] \in DOMAIN master /\ ret[k] = Resolved(k)
       \/ /\ exc # "none"
          /\ ret = <<>>
    /\ (\E k \in 1..Len(top_ids) : top_ids[k][1] \notin DOMAIN master)
         => exc = "KeyError"

C8_Witness ==
  /\ Orchestrated
  /\ Len(top_ids) >= 2
  /\ top_ids[1][1] \in DOMAIN master
  /\ top_ids[2][1] \notin DOMAIN master
  /\ exc = "KeyError"
  /\ ret = <<>>

\* C9: the strings compute_top_stats_career returns are in the order of the
\* ranked list, which is non-increasing in the aggregated score, players of
\* equal aggregated score being in the order of their first rows in the table.
C9_CareerOrder ==
  (op = "compute_top_stats_career" /\ exc = "none") =>
    /\ Len(ret) = Len(top_ids)
    /\ \A k \in 1..Len(top_ids) : ret[k] = Resolved(k)
    /\ NonIncreasing(top_ids)
    /\ \A i, j \in 1..Len(top_ids) :
         (i < j /\ top_ids[i][2] = top_ids[j][2]) =>
           FirstRow(top_ids[i][1]) < FirstRow(top_ids[j][1])

C9_Witness ==
  /\ op = "compute_top_stats_career"
  /\ exc = "none"
  /\ Len(stats) = 3
  /\ Len(top_ids) = 2
  /\ top_ids[1][2] = Zero
  /\ top_ids[2][2] = Zero
  /\ top_ids[1][1] # top_ids[2][1]
  /\ ret = <<Resolved(1), Resolved(2)>>
  /\ heap[1][info.playerid] = top_ids[1][1]
  /\ heap[2][info.playerid] = top_ids[2][1]
  /\ heap[3][info.playerid] = top_ids[1][1]

\* ------------------------------------------------------------- frame claim
Stage == {"filter_by_year", "aggregate_by_player_id", "top_player_ids"}

\* C10: a call of filter_by_year, aggregate_by_player_id or top_player_ids,
\* whether it returns or raises, leaves its input list and every row of it as
\* they were; the records aggregate_by_player_id returns are new dicts that
\* hold the player id and the summed fields and nothing else.
C10_InputsUntouched ==
  [][ op' \in Stage =>
        /\ stats' = stats
        /\ SubSeq(heap', 1, Len(stats)) = Rows
        /\ (op' = "aggregate_by_player_id" =>
              \A k \in 1..Len(ret') :
                /\ ret'[k][2] > Len(stats)
                /\ DOMAIN heap'[ret'[k][2]]
                     = {info.playerid} \cup Range(info.battingfields)) ]_vars

C10_Witness ==
  /\ op = "aggregate_by_player_id"
  /\ exc = "none"
  /\ Len(stats) = 3
  /\ Len(ret) = 2
  /\ Len(heap) = 5
  /\ heap[4][info.atbats] = IntV(550)

====
